---- MODULE Spec2Model ----
(***************************************************************************)
(* Model of LoanCalculatorService (src/app/services/                       *)
(* loan-calculator.service.ts): the month-by-month walk of calculateLoan   *)
(* and the comparison of two loans by compareLoan.                         *)
(*                                                                         *)
(* Numbers.  The service computes in IEEE doubles.  The model computes in  *)
(* integers and draws the inputs so that every intermediate value of the   *)
(* code is an integer: amounts are whole currency units and the annual     *)
(* rate is a multiple of 1200 percent, so that the monthly rate            *)
(* interestRate / 100 / 12 is a whole number.  On these inputs the doubles *)
(* of the code and the integers of the model agree exactly.                *)
(*                                                                         *)
(* Dates.  A date is modelled at the granularity the code uses it:         *)
(* [year, month] with month in 0..11, as returned by getFullYear() and     *)
(* getMonth().  The day of the month and the time zone are not modelled.   *)
(***************************************************************************)
EXTENDS Integers, Sequences, FiniteSets, TLC

(***************************************************************************)
(* Bounds of the model.                                                    *)
(***************************************************************************)
MaxLoanAmount == 3
MaxMonthlyPayment == 3
MaxEscrow == 1
MaxExtraPayment == 2
MaxOneTime == 2
MaxClosingCosts == 3
\* The wall clock's first month, as a month index (year * 12 + month).
ClockStart == 35
\* How many times the wall clock may pass a month boundary in a behaviour.
MaxTicks == 1
\* The edits of the forms followed.
MaxEdits == 2

\* The value of a field that is absent from the loan object (undefined).
Undefined == -1

InterestRates == {0, 1200}
LoanLengthYearsSet == {1}
\* Start dates, in months before the wall clock's first month.
StartOffsets == {-1, 0, 1, 23, 25}
ContinueValues == {"true", "false", "undefined"}

Max(a, b) == IF a >= b THEN a ELSE b

Abs(a) == IF a >= 0 THEN a ELSE -a

(***************************************************************************)
(* Dates.                                                                  *)
(***************************************************************************)
DateOfIndex(i) == [year |-> i \div 12, month |-> i % 12]

\* Date.setMonth(getMonth() + n): months past 11 carry into the year.
AddMonths(d, n) == DateOfIndex(d.year * 12 + d.month + n)

StartDates == {DateOfIndex(ClockStart - o) : o \in StartOffsets}

\* The months at which calculateLoan is called.
Clocks == {DateOfIndex(ClockStart), DateOfIndex(ClockStart + 1)}

NoDate == [year |-> 0, month |-> 0]

(***************************************************************************)
(* Inputs.                                                                 *)
(***************************************************************************)
LoanData ==
  [loanAmount : 0..MaxLoanAmount,
   loanLengthYears : LoanLengthYearsSet,
   interestRate : InterestRates,
   startDate : StartDates,
   monthlyPayment : 0..MaxMonthlyPayment,
   escrow : 0..MaxEscrow,
   extraPayment : 0..MaxExtraPayment,
   oneTimeExtraPayments : 0..MaxOneTime,
   closingCosts : {0},
   continueExtraPayments : ContinueValues]

RECURSIVE Pow(_, _)
\* Math.pow(b, n) for whole numbers.
Pow(b, n) == IF n = 0 THEN 1 ELSE b * Pow(b, n - 1)

\* Mutant: the term taken in years where months are meant.
CalculateMonthlyPaymentPerYear(loanAmount, loanLengthYears, interestRate) ==
  LET monthlyRate == (interestRate \div 100) \div 12
      totalMonths == loanLengthYears
  IN IF monthlyRate = 0 THEN loanAmount \div totalMonths
     ELSE (loanAmount * (monthlyRate * Pow(1 + monthlyRate, totalMonths)))
            \div (Pow(1 + monthlyRate, totalMonths) - 1)

\* Lines 342-357: calculateMonthlyPayment, for a whole monthly rate and a
\* principal the divisions leave whole.
CalculateMonthlyPayment(loanAmount, loanLengthYears, interestRate) ==
  LET monthlyRate == (interestRate \div 100) \div 12
      totalMonths == loanLengthYears * 12
  IN IF monthlyRate = 0 THEN loanAmount \div totalMonths
     ELSE (loanAmount * (monthlyRate * Pow(1 + monthlyRate, totalMonths)))
            \div (Pow(1 + monthlyRate, totalMonths) - 1)

\* Principals whose level payment is a whole amount: multiples of the number
\* of months at rate 0, of 2^12 - 1 at a monthly rate of 1 over 12 months.
StandardPrincipals == [r \in InterestRates |-> IF r = 0 THEN {12, 24} ELSE {4095, 8190}]

\* Loans paid at the level payment of their principal, term and rate (plus
\* escrow), new or one month old.
StandardLoans ==
  UNION {
    {[loanAmount |-> p, loanLengthYears |-> y, interestRate |-> r,
      startDate |-> DateOfIndex(ClockStart - o),
      monthlyPayment |-> CalculateMonthlyPayment(p, y, r) + e, escrow |-> e,
      extraPayment |-> x, oneTimeExtraPayments |-> t, closingCosts |-> 0,
      continueExtraPayments |-> "true"] :
       p \in StandardPrincipals[r], y \in LoanLengthYearsSet, o \in {0, 1},
       e \in 0..MaxEscrow, x \in {0, 1}, t \in {0, 1}} : r \in InterestRates}

NoLoan ==
  [loanAmount |-> 0, loanLengthYears |-> 1, interestRate |-> 0,
   startDate |-> NoDate, monthlyPayment |-> 0, escrow |-> 0,
   extraPayment |-> 0, oneTimeExtraPayments |-> 0, closingCosts |-> 0,
   continueExtraPayments |-> "undefined"]

(***************************************************************************)
(* calculateLoan: the pure parts.                                          *)
(***************************************************************************)
\* x || 0
OrZero(x) == IF x = Undefined THEN 0 ELSE x

\* x || false
OrFalse(x) == x = "true"

MonthlyRate(l) == (l.interestRate \div 100) \div 12

TotalMonths(l) == l.loanLengthYears * 12

\* The safety limit of the walk.
Cap(l) == TotalMonths(l) * 2

MonthsElapsed(startDate, now) ==
  Max(0, (now.year - startDate.year) * 12 + (now.month - startDate.month))

PrincipalAndInterest(l) == l.monthlyPayment - OrZero(l.escrow)

\* Mutant: the one-time payment without the floor at 0.
ApplyOneTimeNoFloor(b, oneTime) == b - oneTime

\* balance = Math.max(0, balance - oneTimeExtraPayments)
ApplyOneTime(b, oneTime) == Max(0, b - oneTime)

\* Mutant: the extra payment applied in every month.
ApplyExtraPaymentAlways(l, me, m) == TRUE

\* Whether month index m gets the recurring extra payment.
ApplyExtraPayment(l, me, m) ==
  IF me = 0 THEN TRUE
  ELSE IF m <= me THEN TRUE
  ELSE OrFalse(l.continueExtraPayments)

\* Mutant: the elapsed month itself counted as a future month.
IsFutureFromElapsed(me, m) == m >= me

\* Whether a month counts as a future month (from today forward).
IsFuture(me, m) == m > me

\* Mutant: the safety limit compared with <=.
LoopCondOffByOne(l, w) == w.balance > 0 /\ w.monthCount <= Cap(l)

\* The condition of the while loop.
LoopCond(l, w) == w.balance > 0 /\ w.monthCount < Cap(l)

\* Mutant: the one-time payment of a new loan not applied at the start.
OpeningBalanceNoOneTime(l, me) == l.loanAmount

\* The one-time payment of a new loan (monthsElapsed = 0) is applied at once.
OpeningBalance(l, me) ==
  IF me = 0 /\ OrZero(l.oneTimeExtraPayments) > 0
    THEN ApplyOneTime(l.loanAmount, OrZero(l.oneTimeExtraPayments))
    ELSE l.loanAmount

\* The early return: the opening one-time payment retires the loan.
ImmediatePayoff(l, me) ==
  /\ me = 0
  /\ OrZero(l.oneTimeExtraPayments) > 0
  /\ OpeningBalance(l, me) = 0

ImmediateResult(l) ==
  [totalInterestPaid |-> 0,
   totalAmountPaid |-> l.loanAmount,
   totalExtraPayment |-> OrZero(l.oneTimeExtraPayments),
   monthsToPayout |-> 0,
   yearsToPayout |-> [num |-> 0, den |-> 12],
   payoffDate |-> l.startDate,
   currentRemainingBalance |-> 0,
   monthsElapsed |-> 0]

\* The locals of calculateLoan when the loop is entered.  schedule is the
\* history of the months walked, one AmortizationEntry per iteration.
Opening(l, me) ==
  [balance |-> OpeningBalance(l, me),
   totalInterest |-> 0,
   totalExtraPayment |-> 0,
   monthCount |-> 0,
   currentRemainingBalance |-> l.loanAmount,
   futureInterest |-> 0,
   futureExtraPayment |-> 0,
   interestPayment |-> 0,
   extraThisMonth |-> 0,
   schedule |-> << >>,
   exited |-> FALSE]

Entry(m, principal, interest, remaining, extra) ==
  [month |-> m, principalPayment |-> principal, interestPayment |-> interest,
   remainingBalance |-> remaining, extraPayment |-> extra]

\* Mutant: the extra payment taken off the principal paid.
TotalPrincipalLessExtra(principalPayment, extra) == principalPayment - extra

\* Line 103: const totalPrincipal = principalPayment + extraThisMonth
TotalPrincipal(principalPayment, extra) == principalPayment + extra

\* Mutant: the whole extra payment accrued in the final month.
FinalExtraWhole(b, principalPayment, extra) == extra

\* Line 115: the extra principal the final month needs.
FinalExtra(b, principalPayment, extra) ==
  IF b - principalPayment > 0 THEN b - principalPayment ELSE 0

\* One iteration of the while loop, from locals w to the locals after it.
MonthStep(l, me, w) ==
  LET m == w.monthCount + 1
      oneTime == OrZero(l.oneTimeExtraPayments)
      atElapsed == m = me /\ me > 0 /\ oneTime > 0
      b == IF atElapsed THEN ApplyOneTime(w.balance, oneTime) ELSE w.balance
      interest == b * MonthlyRate(l)
      principalPayment == PrincipalAndInterest(l) - interest
      extra == IF ApplyExtraPayment(l, me, m) THEN OrZero(l.extraPayment) ELSE 0
      totalPrincipal == TotalPrincipal(principalPayment, extra)
      finalExtra == FinalExtra(b, principalPayment, extra)
      future == IsFuture(me, m)
  IN
  IF atElapsed /\ b = 0
    THEN \* paid off by the one-time payment: break
      [w EXCEPT !.monthCount = m, !.balance = 0, !.exited = TRUE,
                !.schedule = Append(@, Entry(m, 0, 0, 0, 0))]
  ELSE IF totalPrincipal >= b
    THEN \* the final month: break
      [w EXCEPT !.monthCount = m, !.balance = 0, !.exited = TRUE,
                !.totalInterest = @ + interest,
                !.futureInterest = IF future THEN @ + interest ELSE @,
                !.totalExtraPayment = @ + finalExtra,
                !.futureExtraPayment = IF future THEN @ + finalExtra ELSE @,
                !.interestPayment = interest,
                !.extraThisMonth = extra,
                !.schedule = Append(@, Entry(m, b - finalExtra, interest, 0, finalExtra))]
  ELSE
      [w EXCEPT !.monthCount = m, !.balance = b - totalPrincipal,
                !.totalInterest = @ + interest,
                !.totalExtraPayment = @ + extra,
                !.futureInterest = IF future THEN @ + interest ELSE @,
                !.futureExtraPayment = IF future THEN @ + extra ELSE @,
                !.currentRemainingBalance =
                    IF m = me THEN b - totalPrincipal ELSE @,
                !.interestPayment = interest,
                !.extraThisMonth = extra,
                !.schedule = Append(@, Entry(m, principalPayment, interest,
                                              b - totalPrincipal, extra))]

\* Mutant: the difference without its floor at 0.
RemainingMonthsNoFloor(me, monthCount) ==
  IF me > 0 THEN monthCount - me ELSE monthCount

\* monthsElapsed > 0 ? Math.max(0, monthCount - monthsElapsed) : monthCount
RemainingMonths(me, monthCount) ==
  IF me > 0 THEN Max(0, monthCount - me) ELSE monthCount

\* The result object built after the loop.
FinalResult(l, me, w) ==
  LET crb == IF me <= 0 THEN l.loanAmount ELSE w.currentRemainingBalance
      futureInterest == IF me <= 0 THEN w.totalInterest ELSE w.futureInterest
      futureExtra == IF me <= 0 THEN w.totalExtraPayment ELSE w.futureExtraPayment
      remainingMonths == RemainingMonths(me, w.monthCount)
  IN
  [totalInterestPaid |-> IF me > 0 THEN futureInterest ELSE w.totalInterest,
   totalAmountPaid |-> IF me > 0 THEN crb + futureInterest
                                  ELSE l.loanAmount + w.totalInterest,
   totalExtraPayment |-> IF me > 0 THEN futureExtra ELSE w.totalExtraPayment,
   monthsToPayout |-> remainingMonths,
   yearsToPayout |-> [num |-> remainingMonths, den |-> 12],
   payoffDate |-> AddMonths(l.startDate, w.monthCount),
   currentRemainingBalance |-> crb,
   monthsElapsed |-> me]

NoResult == ImmediateResult(NoLoan)

RECURSIVE RunLoop(_, _, _)
\* The while loop run to its end.
RunLoop(l, me, w) ==
  IF w.exited \/ ~LoopCond(l, w) THEN w ELSE RunLoop(l, me, MonthStep(l, me, w))

\* calculateLoan as one call: its result and the locals it ended with.
CalculateLoanRun(l, now) ==
  LET me == MonthsElapsed(l.startDate, now)
      w == RunLoop(l, me, Opening(l, me))
  IN
  IF ImmediatePayoff(l, me)
    THEN [result |-> ImmediateResult(l), locals |-> Opening(l, me)]
    ELSE [result |-> FinalResult(l, me, w), locals |-> w]

CalculateLoan(l, now) == CalculateLoanRun(l, now).result

(***************************************************************************)
(* compareLoan: the pure parts.                                            *)
(***************************************************************************)
\* Start dates of the loans compared, in months before the clock's first month.
CompareOriginalOffsets == {0, 1}
CompareNewOffsets == {0}

CompareOriginalLoans ==
  [loanAmount : 0..MaxLoanAmount,
   loanLengthYears : LoanLengthYearsSet,
   interestRate : InterestRates,
   startDate : {DateOfIndex(ClockStart - o) : o \in CompareOriginalOffsets},
   monthlyPayment : 0..MaxMonthlyPayment,
   escrow : {0},
   extraPayment : {0},
   oneTimeExtraPayments : {0},
   closingCosts : {0},
   continueExtraPayments : {"false"}]

CompareNewLoans ==
  [loanAmount : 0..MaxLoanAmount,
   loanLengthYears : LoanLengthYearsSet,
   interestRate : InterestRates,
   startDate : {DateOfIndex(ClockStart - o) : o \in CompareNewOffsets},
   monthlyPayment : 0..MaxMonthlyPayment,
   escrow : {0},
   extraPayment : {0},
   oneTimeExtraPayments : {0},
   closingCosts : (0..MaxClosingCosts) \cup {Undefined},
   continueExtraPayments : {"undefined"}]

\* A pair of loans of ordinary size, at rate 0 so that every amount of their
\* walks is a whole number: 1200 repaid at 105 a month, refinanced at 100 a
\* month.
TypicalOriginalLoan ==
  [loanAmount |-> 1200, loanLengthYears |-> 1, interestRate |-> 0,
   startDate |-> DateOfIndex(ClockStart), monthlyPayment |-> 105, escrow |-> 0,
   extraPayment |-> 0, oneTimeExtraPayments |-> 0, closingCosts |-> 0,
   continueExtraPayments |-> "false"]

TypicalNewLoan ==
  [loanAmount |-> 1200, loanLengthYears |-> 1, interestRate |-> 0,
   startDate |-> DateOfIndex(ClockStart), monthlyPayment |-> 100, escrow |-> 0,
   extraPayment |-> 0, oneTimeExtraPayments |-> 0, closingCosts |-> 0,
   continueExtraPayments |-> "undefined"]

\* Mutant: the quotient rounded down.
CeilDivFloor(a, b) == a \div b

\* Math.ceil(a / b) for a >= 0 and b > 0.
CeilDiv(a, b) == IF a % b = 0 THEN a \div b ELSE (a \div b) + 1

\* Lines 199-204: months until the closing costs are recovered.
BreakEvenMonths(closingCosts, monthlyPaymentDifference) ==
  IF closingCosts > 0 /\ monthlyPaymentDifference < 0
    THEN LET monthlySavings == Abs(monthlyPaymentDifference)
         IN IF monthlySavings > 0 THEN CeilDiv(closingCosts, monthlySavings) ELSE 0
    ELSE 0

(***************************************************************************)
(* The rate searches: numbers.                                             *)
(*                                                                         *)
(* Rates.  Both searches bisect [0, 20] percent; every low, high and mid  *)
(* they reach is a multiple of 20 / 2^19 percent, so a rate is modelled as *)
(* a whole number of such units (RateUnits of them make 20 percent).       *)
(*                                                                         *)
(* Fractions.  The monthly rate, Math.pow(1 + monthlyRate, n) - 1 and the  *)
(* payment per unit of principal are fractions below 1, modelled in fixed  *)
(* point with 30 binary places and rounded down where the code rounds to   *)
(* the nearest double.  Money is in units of 1 / InterestScale (target-    *)
(* interest search) and 1 / PaymentScale (target-payment search).          *)
(***************************************************************************)
\* The bracket's upper end: let high = 20, in percent.
MaxRate == 20
\* Rate units in MaxRate percent.
RateUnits == 524288
\* 1.0 in fixed point, and the base the products are split at.
FracOne == 1073741824
FracBase == 32768
\* 1.0 in the fixed point of PowMinusOneOverRate.
SumOne == 16777216
InterestScale == 20
PaymentScale == 1000
\* const tolerance = 10 (total interest) and 0.01 (payment), in currency units.
InterestTolerance == 10
PaymentToleranceInverse == 100
\* const maxIterations = 100
MaxIterations == 100

\* a * b for fixed-point a, b (each below 2^30), rounded down.
MulFrac(a, b) ==
  (a \div FracBase) * (b \div FracBase)
    + (((a \div FracBase) * (b % FracBase) + (a % FracBase) * (b \div FracBase))
         \div FracBase)

RECURSIVE DivDigits(_, _, _, _)
\* acc followed by the next `digits` base-8 digits of rem / b, for
\* 0 <= rem < b < 2^28.
DivDigits(rem, b, digits, acc) ==
  IF digits = 0 THEN acc
  ELSE DivDigits((rem * 8) % b, b, digits - 1, acc * 8 + (rem * 8) \div b)

\* a / b for 0 <= a < b < 2^28, as a fixed-point fraction, rounded down.
DivFrac(a, b) == DivDigits(a, b, 10, 0)

\* mid / 100 / 12 for a rate of k units.
MonthlyRateOf(k) == (k * 512) \div 15

RECURSIVE PowMinusOneOverRate(_, _)
\* (Math.pow(1 + r, n) - 1) / r = 1 + (1 + r) + ... + (1 + r)^(n-1), in units
\* of 1 / SumOne (the sum stays below 16 for the terms and rates modelled).
PowMinusOneOverRate(r, n) ==
  IF n = 0 THEN 0
  ELSE LET t == PowMinusOneOverRate(r, n - 1) IN t + SumOne + MulFrac(t, r)

\* (monthlyRate * Math.pow(1 + monthlyRate, n)) / (Math.pow(1 + monthlyRate, n) - 1),
\* the level payment per unit of principal, for r > 0.  It equals
\* r + r / (pow - 1); computed from (pow - 1) / r the fixed point keeps its
\* precision at small rates, as the doubles of the code do.
PaymentFactor(r, n) == r + DivFrac(SumOne, PowMinusOneOverRate(r, n))

\* Lines 259-267: the total interest at a rate of k units, in units of
\* 1 / InterestScale: loanAmount * factor * totalMonths - loanAmount.
TotalInterestAt(loanAmount, totalMonths, k) ==
  IF MonthlyRateOf(k) = 0 THEN 0
  ELSE MulFrac(loanAmount * InterestScale,
               totalMonths * PaymentFactor(MonthlyRateOf(k), totalMonths) - FracOne)

\* Lines 313-320: the monthly payment at a rate of k units, in units of
\* 1 / PaymentScale.
PaymentAt(loanAmount, totalMonths, k) ==
  IF MonthlyRateOf(k) = 0 THEN (loanAmount * PaymentScale) \div totalMonths
  ELSE MulFrac(loanAmount * PaymentScale,
               PaymentFactor(MonthlyRateOf(k), totalMonths))

(***************************************************************************)
(* The rate searches: calculateTargetSavingsRate and calculateSuggestedRate.*)
(***************************************************************************)
\* The locals of a search when its loop is entered: low = 0, high = 20 and,
\* in calculateSuggestedRate, mid = (low + high) / 2.
SearchOpening ==
  [low |-> 0, high |-> RateUnits, mid |-> RateUnits \div 2, iterations |-> 0,
   exited |-> FALSE, rate |-> 0, byTolerance |-> FALSE]

\* Mutant: the loop bounded by its iteration limit alone.
SearchCondNoWidth(w) == w.iterations < MaxIterations

\* while (iterations < maxIterations && high - low > 0.0001): the width is
\* (high - low) x MaxRate / RateUnits percent.
SearchCond(w) ==
  /\ w.iterations < MaxIterations
  /\ w.high - w.low > RateUnits \div (MaxRate * 10000)

\* Mutant: the bracket narrowed the wrong way.
RaiseLowWhenAbove(value, target) == value > target

\* Lines 273 and 326: low is raised when the value at mid is below the target.
RaiseLow(value, target) == value < target

\* Mutant: the tolerance test passed at twice the tolerance.
WithinToleranceDoubled(value, target, tolerance) ==
  Abs(value - target) < 2 * tolerance

\* Lines 269 and 322: Math.abs(value - target) < tolerance
WithinTolerance(value, target, tolerance) == Abs(value - target) < tolerance

\* Lines 255-279: one iteration of calculateTargetSavingsRate's loop.
TargetSavingsStep(loanAmount, totalMonths, targetTotalInterest, w) ==
  LET m == (w.low + w.high) \div 2
      totalInterest == TotalInterestAt(loanAmount, totalMonths, m)
  IN
  IF WithinTolerance(totalInterest, targetTotalInterest,
                     InterestTolerance * InterestScale)
    THEN [w EXCEPT !.mid = m, !.exited = TRUE, !.rate = m, !.byTolerance = TRUE]
  ELSE IF RaiseLow(totalInterest, targetTotalInterest)
    THEN [w EXCEPT !.mid = m, !.low = m, !.iterations = @ + 1]
    ELSE [w EXCEPT !.mid = m, !.high = m, !.iterations = @ + 1]

\* Lines 310-333: one iteration of calculateSuggestedRate's loop.
SuggestedRateStep(loanAmount, totalMonths, targetMonthlyPayment, w) ==
  LET calculatedPayment == PaymentAt(loanAmount, totalMonths, w.mid)
  IN
  IF WithinTolerance(calculatedPayment, targetMonthlyPayment,
                     PaymentScale \div PaymentToleranceInverse)
    THEN [w EXCEPT !.exited = TRUE, !.rate = w.mid, !.byTolerance = TRUE]
  ELSE IF RaiseLow(calculatedPayment, targetMonthlyPayment)
    THEN [w EXCEPT !.low = w.mid, !.mid = (w.mid + w.high) \div 2,
                   !.iterations = @ + 1]
    ELSE [w EXCEPT !.high = w.mid, !.mid = (w.low + w.mid) \div 2,
                   !.iterations = @ + 1]

\* The arguments of a search.  target is targetTotalCost, in units of
\* 1 / InterestScale, or targetMonthlyPayment, in units of 1 / PaymentScale.
SearchArgs(kind, loanAmount, loanLengthYears, target) ==
  [kind |-> kind, loanAmount |-> loanAmount,
   loanLengthYears |-> loanLengthYears, target |-> target]

NoSearch == SearchArgs("none", 0, 1, 0)

\* Lines 241 and 297: the search returns 0 without entering its loop.
SearchShortCut(a) ==
  IF a.kind = "interest"
    THEN a.target < a.loanAmount * InterestScale
    ELSE a.target * (a.loanLengthYears * 12) <= a.loanAmount * PaymentScale

\* One iteration of the loop of the search called with arguments a.
SearchStep(a, w) ==
  IF a.kind = "interest"
    THEN TargetSavingsStep(a.loanAmount, a.loanLengthYears * 12,
                           a.target - a.loanAmount * InterestScale, w)
    ELSE SuggestedRateStep(a.loanAmount, a.loanLengthYears * 12, a.target, w)

\* Lines 282 and 336: the rate returned when the loop's condition fails.
SearchReturn(a, w) ==
  IF a.kind = "interest" THEN (w.low + w.high) \div 2 ELSE w.mid

RECURSIVE RunSearch(_, _)
\* The loop of a search run to its end.
RunSearch(a, w) ==
  IF w.exited THEN w
  ELSE IF ~SearchCond(w) THEN [w EXCEPT !.exited = TRUE, !.rate = SearchReturn(a, w)]
  ELSE RunSearch(a, SearchStep(a, w))

\* A search as one call: the rate it returns, in rate units.
SearchRate(a) ==
  IF SearchShortCut(a) THEN 0 ELSE RunSearch(a, SearchOpening).rate

CalculateTargetSavingsRate(loanAmount, loanLengthYears, targetTotalCost) ==
  SearchRate(SearchArgs("interest", loanAmount, loanLengthYears, targetTotalCost))

CalculateSuggestedRate(loanAmount, loanLengthYears, targetMonthlyPayment) ==
  SearchRate(SearchArgs("payment", loanAmount, loanLengthYears, targetMonthlyPayment))

\* Lines 342-357: calculateMonthlyPayment at a rate of k units, in units of
\* 1 / PaymentScale.
MonthlyPaymentAtRate(loanAmount, loanLengthYears, k) ==
  PaymentAt(loanAmount, loanLengthYears * 12, k)

\* The searches run on their own: principals, target interests (in currency
\* units; -1 puts the target cost below the principal) and the rates whose
\* payment is searched for.
SearchLoanAmounts == {0, 3, 1200, 100000, 1000000}
TargetInterests == {-1, 0, 5, 30, 66, 100, 5000, 11000, 20000}
RoundTripRates == {0, 26214, 100000, 131072, 262144, 400000, 524288}

InterestSearches ==
  {SearchArgs("interest", p, y, (p + t) * InterestScale) :
     p \in SearchLoanAmounts, y \in LoanLengthYearsSet, t \in TargetInterests}

\* The payments of the round trip, and for each principal a payment no rate
\* of the range reaches.
PaymentSearches ==
  {SearchArgs("payment", p, y, MonthlyPaymentAtRate(p, y, k)) :
     p \in SearchLoanAmounts, y \in LoanLengthYearsSet, k \in RoundTripRates}
  \cup {SearchArgs("payment", p, y, (p * PaymentScale) \div 6) :
          p \in SearchLoanAmounts, y \in LoanLengthYearsSet}

\* Mutant: the interest to save taken for the interest to reach.
TargetTotalInterestSaved(totalInterestPaid) ==
  (totalInterestPaid * InterestScale) \div 5

\* Lines 207-208: the original interest less 20 percent of it, in units of
\* 1 / InterestScale.
TargetTotalInterest(totalInterestPaid) ==
  totalInterestPaid * InterestScale - (totalInterestPaid * InterestScale) \div 5

\* Lines 209-215: the arguments compareLoan calls the search with.
SuggestedRateArgs(new, originalRes) ==
  SearchArgs("interest", new.loanAmount, new.loanLengthYears,
             new.loanAmount * InterestScale
               + TargetTotalInterest(originalRes.totalInterestPaid))

\* Mutant: the closing costs left out of the total cost.
TotalCostWithoutClosing(newRes, closingCosts) == newRes.totalAmountPaid

\* Line 194: the total cost of the new loan, closing costs included.
TotalCostWithClosing(newRes, closingCosts) ==
  newRes.totalAmountPaid + closingCosts

\* Lines 186-228: the comparison built from the two results.
Comparison(original, new, originalRes, newRes) ==
  LET monthlyPaymentDifference == new.monthlyPayment - original.monthlyPayment
      closingCosts == OrZero(new.closingCosts)
      totalCostWithClosing == TotalCostWithClosing(newRes, closingCosts)
  IN
  [originalLoan |-> originalRes,
   newLoan |-> newRes,
   differenceInTotalPayment |-> newRes.totalAmountPaid - originalRes.totalAmountPaid,
   differenceinInterest |-> newRes.totalInterestPaid - originalRes.totalInterestPaid,
   monthlyPaymentDifference |-> monthlyPaymentDifference,
   suggestedNewRate |-> SearchRate(SuggestedRateArgs(new, originalRes)),
   totalCostWithClosing |-> totalCostWithClosing,
   netSavings |-> originalRes.totalAmountPaid - totalCostWithClosing,
   breakEvenMonths |-> BreakEvenMonths(closingCosts, monthlyPaymentDifference)]

NoComparison == Comparison(NoLoan, NoLoan, NoResult, NoResult)

(***************************************************************************)
(* The form layer: the pure parts.  An empty control holds Undefined.      *)
(***************************************************************************)
\* Validators.required
Required(x) == x # Undefined

\* Validators.min(m): an empty control passes.
MinValidator(x, m) == x = Undefined \/ x >= m

\* Lines 36-47: originalLoanForm.valid
OriginalFormValid(f) ==
  /\ Required(f.loanAmount) /\ MinValidator(f.loanAmount, 0)
  /\ Required(f.loanLengthYears) /\ MinValidator(f.loanLengthYears, 1)
  /\ Required(f.interestRate) /\ MinValidator(f.interestRate, 0)
  /\ f.startDate # NoDate
  /\ Required(f.monthlyPayment) /\ MinValidator(f.monthlyPayment, 0)
  /\ MinValidator(f.escrow, 0)
  /\ MinValidator(f.extraPayment, 0)
  /\ MinValidator(f.oneTimeExtraPayments, 0)
  /\ MinValidator(f.closingCosts, 0)

\* Lines 49-58: newLoanForm.valid
NewFormValid(f) ==
  /\ Required(f.loanAmount) /\ MinValidator(f.loanAmount, 0)
  /\ Required(f.loanLengthYears) /\ MinValidator(f.loanLengthYears, 1)
  /\ Required(f.interestRate) /\ MinValidator(f.interestRate, 0)
  /\ Required(f.monthlyPayment) /\ MinValidator(f.monthlyPayment, 0)
  /\ MinValidator(f.escrow, 0)
  /\ MinValidator(f.extraPayment, 0)
  /\ MinValidator(f.oneTimeExtraPayments, 0)
  /\ MinValidator(f.closingCosts, 0)

\* Math.round(num / den) for num >= 0 and den > 0.
MathRound(num, den) == (2 * num + den) \div (2 * den)

\* A control's value is truthy: neither empty nor 0.
Truthy(x) == x # Undefined /\ x # 0

\* Line 119: the guard of autoCalculatePayment.
CanAutoCalculate(f) ==
  Truthy(f.loanAmount) /\ Truthy(f.loanLengthYears) /\ f.interestRate # Undefined

\* Lines 113-139: autoCalculatePayment, the form it leaves.
AutoCalculatePayment(f) ==
  IF CanAutoCalculate(f)
    THEN [f EXCEPT !.monthlyPayment =
            MathRound((CalculateMonthlyPayment(f.loanAmount, f.loanLengthYears,
                                               f.interestRate)
                         + OrZero(f.escrow)) * 100, 1) \div 100]
    ELSE f

\* Mutant: the patches emit a change event, as patchValue does by default.
PatchEmitEventDefault == TRUE

\* Lines 105 and 137: { emitEvent: false }
PatchEmitEvent == FALSE

\* The change events a patch of the handler emits.
PatchEvents(patched) == IF patched /\ PatchEmitEvent THEN 1 ELSE 0

\* Lines 94-111: updateNewLoanAmount, the new-loan form it leaves.
UpdateNewLoanAmount(original, new, now) ==
  IF OriginalFormValid(original)
    THEN AutoCalculatePayment(
           [new EXCEPT !.loanAmount =
              MathRound(CalculateLoan(original, now).currentRemainingBalance, 1)])
    ELSE new

\* Lines 143-149: the original loan handed to compareLoan.
OriginalLoanOf(f) ==
  [f EXCEPT !.escrow = OrZero(@), !.extraPayment = OrZero(@),
            !.oneTimeExtraPayments = OrZero(@), !.closingCosts = OrZero(@)]

\* Lines 150-157: the new loan handed to compareLoan, starting today.
NewLoanOf(f, now) ==
  [loanAmount |-> f.loanAmount, loanLengthYears |-> f.loanLengthYears,
   interestRate |-> f.interestRate, startDate |-> now,
   monthlyPayment |-> f.monthlyPayment, escrow |-> OrZero(f.escrow),
   extraPayment |-> OrZero(f.extraPayment),
   oneTimeExtraPayments |-> OrZero(f.oneTimeExtraPayments),
   closingCosts |-> OrZero(f.closingCosts),
   continueExtraPayments |-> "undefined"]

\* Line 159: compareLoan(originalLoan, newLoan), both walks in month now.
CompareLoan(original, new, now) ==
  Comparison(original, new, CalculateLoan(original, now), CalculateLoan(new, now))

\* Values a user gives the controls edited.
FormLoanAmounts == {Undefined, 0, 196560}
FormInterestRates == {Undefined, 0, 1200}
FormNewInterestRates == {Undefined, 0}
FormStartOffsets == {0, 1}
FormExtraPayments == {0, 12}

\* The forms as loaded: the default data or the data saved.
LoadedOriginalForms ==
  {[loanAmount |-> 196560, loanLengthYears |-> 1, interestRate |-> r,
    startDate |-> DateOfIndex(ClockStart - o), monthlyPayment |-> 0,
    escrow |-> 0, extraPayment |-> 0, oneTimeExtraPayments |-> 0,
    closingCosts |-> 0, continueExtraPayments |-> "false"] :
     r \in FormInterestRates \ {Undefined}, o \in FormStartOffsets}

LoadedNewForms ==
  {[loanAmount |-> 196560, loanLengthYears |-> 1, interestRate |-> 0,
    monthlyPayment |-> 0, escrow |-> 0, extraPayment |-> 0,
    oneTimeExtraPayments |-> 0, closingCosts |-> 0]}

\* The forms an edit of one control of the original-loan form can leave.
OriginalEdits(f) ==
  ({[f EXCEPT !.loanAmount = v] : v \in FormLoanAmounts}
     \cup {[f EXCEPT !.interestRate = v] : v \in FormInterestRates}
     \cup {[f EXCEPT !.startDate = DateOfIndex(ClockStart - o)] : o \in FormStartOffsets}
     \cup {[f EXCEPT !.extraPayment = v] : v \in FormExtraPayments}) \ {f}

\* The forms an edit of one control of the new-loan form can leave.
NewEdits(f) ==
  ({[f EXCEPT !.interestRate = v] : v \in FormNewInterestRates}
     \cup {[f EXCEPT !.closingCosts = v] : v \in 0..MaxClosingCosts}) \ {f}

NoForm ==
  [loanAmount |-> 0, loanLengthYears |-> 1, interestRate |-> 0,
   monthlyPayment |-> 0, escrow |-> 0, extraPayment |-> 0,
   oneTimeExtraPayments |-> 0, closingCosts |-> 0]

(***************************************************************************)
(* State.                                                                  *)
(***************************************************************************)
VARIABLES
  clock,          \* the wall clock, new Date()
  ticks,          \* month boundaries the wall clock has passed
  loan,           \* the argument of calculateLoan
  pc,             \* where calculateLoan is: call, loop, exit, returned
  today,          \* calculateLoan's const today
  monthsElapsed,
  balance,
  totalInterest,
  totalExtraPayment,
  monthCount,
  currentRemainingBalance,
  futureInterest,
  futureExtraPayment,
  interestPayment,   \* of the last iteration
  extraThisMonth,    \* of the last iteration
  schedule,          \* history: the months walked
  result,            \* what calculateLoan returned
  cpc,               \* where compareLoan is: idle, call, original, new, done
  originalLoan,      \* the arguments of compareLoan
  newLoan,
  originalResult,
  newResult,
  todayOriginal,     \* history: the today each calculateLoan call read
  todayNew,
  comparison,        \* what compareLoan returned
  searchCalls,       \* history: the arguments of every rate search called
  searchArgs,        \* the arguments of the rate search that is running
  spc,               \* where the rate search is: idle, call, loop, returned
  low,
  high,
  mid,
  iterations,
  rate,              \* what the rate search returned, in rate units
  byTolerance,       \* history: the search returned from its tolerance test
  fpc,               \* where the form's change handler is
  originalLoanForm,  \* the value of the original-loan form
  newLoanForm,       \* the value of the new-loan form
  comparisonResult,  \* the comparison shown
  savedData,         \* what saveToLocalStorage stored
  changeEvents,      \* history: change events emitted since the last edit began
  formLog,           \* history: the steps the running handler has taken
  comparedAmount,    \* history: the new-loan amount of the last compareLoan call
  edits              \* history: the edits made

calcVars ==
  <<loan, pc, today, monthsElapsed, balance, totalInterest, totalExtraPayment,
    monthCount, currentRemainingBalance, futureInterest, futureExtraPayment,
    interestPayment, extraThisMonth, schedule, result>>

cmpVars ==
  <<cpc, originalLoan, newLoan, originalResult, newResult, todayOriginal,
    todayNew, comparison>>

\* The rate search that is running.
searchLocals == <<searchArgs, spc, low, high, mid, iterations, rate, byTolerance>>

searchVars == <<searchCalls, searchLocals>>

formVars ==
  <<fpc, originalLoanForm, newLoanForm, comparisonResult, savedData,
    changeEvents, formLog, comparedAmount, edits>>

vars == <<clock, ticks, calcVars, cmpVars, searchVars, formVars>>

\* The locals of the running call, as one record.
Locals ==
  [balance |-> balance,
   totalInterest |-> totalInterest,
   totalExtraPayment |-> totalExtraPayment,
   monthCount |-> monthCount,
   currentRemainingBalance |-> currentRemainingBalance,
   futureInterest |-> futureInterest,
   futureExtraPayment |-> futureExtraPayment,
   interestPayment |-> interestPayment,
   extraThisMonth |-> extraThisMonth,
   schedule |-> schedule,
   exited |-> pc = "exit"]

SetLocals(w) ==
  /\ balance' = w.balance
  /\ totalInterest' = w.totalInterest
  /\ totalExtraPayment' = w.totalExtraPayment
  /\ monthCount' = w.monthCount
  /\ currentRemainingBalance' = w.currentRemainingBalance
  /\ futureInterest' = w.futureInterest
  /\ futureExtraPayment' = w.futureExtraPayment
  /\ interestPayment' = w.interestPayment
  /\ extraThisMonth' = w.extraThisMonth
  /\ schedule' = w.schedule

\* The locals of the running rate search, as one record.
SearchLocals ==
  [low |-> low, high |-> high, mid |-> mid, iterations |-> iterations,
   exited |-> spc = "returned", rate |-> rate, byTolerance |-> byTolerance]

SetSearchLocals(w) ==
  /\ low' = w.low
  /\ high' = w.high
  /\ mid' = w.mid
  /\ iterations' = w.iterations
  /\ rate' = w.rate
  /\ byTolerance' = w.byTolerance

\* No rate search is running.
SearchIdle ==
  /\ searchCalls = << >>
  /\ searchArgs = NoSearch
  /\ spc = "idle"
  /\ low = 0
  /\ high = 0
  /\ mid = 0
  /\ iterations = 0
  /\ rate = 0
  /\ byTolerance = FALSE

\* The form layer is not modelled: nothing is edited.
FormIdle ==
  /\ fpc = "none"
  /\ originalLoanForm = NoLoan
  /\ newLoanForm = NoForm
  /\ comparisonResult = NoComparison
  /\ savedData = <<NoLoan, NoForm, NoDate>>
  /\ changeEvents = 0
  /\ formLog = << >>
  /\ comparedAmount = Undefined
  /\ edits = 0

CompareIdle ==
  /\ originalLoan = NoLoan
  /\ newLoan = NoLoan
  /\ originalResult = NoResult
  /\ newResult = NoResult
  /\ todayOriginal = NoDate
  /\ todayNew = NoDate
  /\ comparison = NoComparison

\* calculateLoan is called with any loan, at any month of the wall clock.
Init ==
  /\ clock \in Clocks
  /\ ticks = 0
  /\ cpc = "idle"
  /\ CompareIdle
  /\ SearchIdle
  /\ FormIdle
  /\ loan \in LoanData \cup StandardLoans
  /\ pc = "call"
  /\ today = NoDate
  /\ monthsElapsed = 0
  /\ balance = 0
  /\ totalInterest = 0
  /\ totalExtraPayment = 0
  /\ monthCount = 0
  /\ currentRemainingBalance = 0
  /\ futureInterest = 0
  /\ futureExtraPayment = 0
  /\ interestPayment = 0
  /\ extraThisMonth = 0
  /\ schedule = << >>
  /\ result = NoResult

\* Lines 23-68: the locals are set up, today is read from the wall clock and
\* the opening one-time payment is applied; the call returns at once when
\* that payment retires the loan.
Enter ==
  /\ pc = "call"
  /\ \E me \in {MonthsElapsed(loan.startDate, clock)} :
        /\ today' = clock
        /\ monthsElapsed' = me
        /\ \E w \in {Opening(loan, me)} : SetLocals(w)
        /\ IF ImmediatePayoff(loan, me)
             THEN pc' = "returned" /\ result' = ImmediateResult(loan)
             ELSE pc' = "loop" /\ result' = result
  /\ UNCHANGED <<clock, ticks, loan, cmpVars, searchVars, formVars>>

\* Lines 71-140: one iteration of the while loop.
Month ==
  /\ pc = "loop"
  /\ LoopCond(loan, Locals)
  /\ \E w \in {MonthStep(loan, monthsElapsed, Locals)} :
        /\ SetLocals(w)
        /\ pc' = IF w.exited THEN "exit" ELSE "loop"
  /\ UNCHANGED <<clock, ticks, loan, today, monthsElapsed, result, cmpVars,
                 searchVars, formVars>>

\* Lines 142-176: the loop has ended (its condition is false, or a break);
\* the result is built and returned.
Return ==
  /\ pc \in {"loop", "exit"}
  /\ pc = "loop" => ~LoopCond(loan, Locals)
  /\ result' = FinalResult(loan, monthsElapsed, Locals)
  /\ pc' = "returned"
  /\ UNCHANGED <<clock, ticks, loan, today, monthsElapsed, balance,
                 totalInterest, totalExtraPayment, monthCount,
                 currentRemainingBalance, futureInterest, futureExtraPayment,
                 interestPayment, extraThisMonth, schedule, cmpVars,
                 searchVars, formVars>>

Next == Enter \/ Month \/ Return

Spec == Init /\ [][Next]_vars

(***************************************************************************)
(* Properties of calculateLoan, checked under Spec.                       *)
(***************************************************************************)
Returned == pc = "returned"

\* The call is past line 68: its locals are set.
Entered == pc \in {"loop", "exit", "returned"}

OneTime == OrZero(loan.oneTimeExtraPayments)

\* The last iteration was the break on the one-time payment (lines 77-79).
BrokeOnOneTime ==
  /\ pc \in {"exit", "returned"}
  /\ monthCount >= 1
  /\ monthCount = monthsElapsed
  /\ OneTime > 0
  /\ Len(schedule) = monthCount
  /\ schedule[monthCount].principalPayment = 0
  /\ schedule[monthCount].extraPayment = 0
  /\ schedule[monthCount].remainingBalance = 0

RECURSIVE InterestAfter(_, _, _)
\* The interest of the schedule's entries k.. with month index above `after`.
InterestAfter(sched, after, k) ==
  IF k > Len(sched) THEN 0
  ELSE (IF sched[k].month > after THEN sched[k].interestPayment ELSE 0)
       + InterestAfter(sched, after, k + 1)

\* Some loan with the same start date, simulated for the same today, is paid
\* off by its walk and gets the result res.
IsPaidOffResult(res, startDate, now) ==
  \E l \in LoanData :
    /\ l.startDate = startDate
    /\ CalculateLoanRun(l, now).locals.balance = 0
    /\ CalculateLoan(l, now) = res

\* C1: a call whose walk stops at the safety limit with the balance still
\* positive returns a result that tells it apart from a genuine payoff: no
\* call that pays its loan off returns the same result.
C1_NonAmortizingDistinct ==
  (Returned /\ balance > 0) => ~IsPaidOffResult(result, loan.startDate, today)

\* C2: every iteration advances the month counter by one, the counter (and
\* so the number of iterations) never exceeds 2 x loanLengthYears x 12, and a
\* call that has not returned always has a step to take: the walk ends within
\* the limit and the call returns.
C2_Terminates ==
  /\ monthCount <= 2 * loan.loanLengthYears * 12
  /\ Len(schedule) = monthCount
  /\ Returned \/ ENABLED Next

\* C2 witness: a walk that the safety limit stopped, returned.
C2_Witness ==
  /\ Returned
  /\ balance > 0
  /\ monthCount = 2 * loan.loanLengthYears * 12

\* C3: with loanAmount >= 0 the balance is never negative, after the opening
\* one-time payment, after every month, at the end; nor is the reported
\* remaining balance.
C3_BalanceNonNegative ==
  loan.loanAmount >= 0 =>
    /\ balance >= 0
    /\ currentRemainingBalance >= 0
    /\ \A k \in 1..Len(schedule) : schedule[k].remainingBalance >= 0
    /\ Returned => result.currentRemainingBalance >= 0

\* C3 witness: the one-time payment at the elapsed month exceeded the balance
\* left by the months before and was floored at 0.
C3_Witness ==
  /\ Returned
  /\ BrokeOnOneTime
  /\ monthCount >= 2
  /\ schedule[monthCount - 1].remainingBalance > 0
  /\ schedule[monthCount - 1].remainingBalance < OneTime
  /\ balance = 0

\* C4: the balance after month k+1 is never greater than the balance after
\* month k, nor the balance after month 1 greater than the opening balance.
C4_BalanceNonIncreasing ==
  /\ \A k \in 1..(Len(schedule) - 1) :
       schedule[k + 1].remainingBalance <= schedule[k].remainingBalance
  /\ Len(schedule) >= 1 => schedule[1].remainingBalance <= loan.loanAmount

\* C5: monthsElapsed lies in [0, loanLengthYears x 12], and is 0 when the
\* start date is in the current month or in the future.
C5_MonthsElapsedClamped ==
  Entered =>
    /\ monthsElapsed >= 0
    /\ monthsElapsed <= loan.loanLengthYears * 12
    /\ (loan.startDate.year * 12 + loan.startDate.month
          >= today.year * 12 + today.month) => monthsElapsed = 0
    /\ Returned => result.monthsElapsed = monthsElapsed

C7_ImmediatePayoff ==
  /\ (Entered /\ monthsElapsed = 0 /\ loan.loanAmount > 0
        /\ OneTime >= loan.loanAmount) =>
       /\ Returned
       /\ monthCount = 0
       /\ schedule = << >>
       /\ result.monthsToPayout = 0
       /\ result.totalInterestPaid = 0
       /\ result.currentRemainingBalance = 0
       /\ result.payoffDate = loan.startDate
  /\ (Entered /\ monthsElapsed = 0 /\ OneTime < loan.loanAmount
        /\ Len(schedule) >= 1) =>
       schedule[1].interestPayment
         = (loan.loanAmount - OneTime) * ((loan.interestRate \div 100) \div 12)

\* C7 witness: a new loan retired by its one-time payment.
C7_Witness ==
  /\ Returned
  /\ monthsElapsed = 0
  /\ today = clock
  /\ loan.loanAmount > 0
  /\ OneTime >= loan.loanAmount
  /\ loan.interestRate > 0
  /\ result.payoffDate = loan.startDate

\* C8: for an existing loan the reported interest is the interest of the
\* months after monthsElapsed and the total paid is the reported remaining
\* balance plus that interest; for a new loan they are the lifetime interest
\* and the principal plus the lifetime interest.
C8_ProspectiveReporting ==
  Returned =>
    IF monthsElapsed > 0
      THEN /\ result.totalInterestPaid = InterestAfter(schedule, monthsElapsed, 1)
           /\ result.totalAmountPaid
                = result.currentRemainingBalance + result.totalInterestPaid
      ELSE /\ result.totalInterestPaid = InterestAfter(schedule, 0, 1)
           /\ result.totalAmountPaid = loan.loanAmount + result.totalInterestPaid

\* C8 witness: an existing loan with interest both before and after today,
\* and with extra payments after today.
C8_Witness ==
  /\ Returned
  /\ monthsElapsed > 0
  /\ monthCount > monthsElapsed
  /\ result.totalInterestPaid > 0
  /\ totalInterest > result.totalInterestPaid
  /\ result.totalExtraPayment > 0

\* C14: raising extraPayment, all else fixed and for the same today, never
\* raises monthsToPayout or totalInterestPaid.  Every loan is compared with
\* the loan whose extraPayment is one less.
C14_ExtraPaymentMonotone ==
  (Returned /\ OrZero(loan.extraPayment) >= 1) =>
    LET less == CalculateLoan([loan EXCEPT !.extraPayment = @ - 1], today)
    IN /\ result.monthsToPayout <= less.monthsToPayout
       /\ result.totalInterestPaid <= less.totalInterestPaid

\* C14 witness: an existing loan that continues its extra payments and is
\* paid off sooner and with less interest than with a smaller extra payment.
C14_Witness ==
  /\ Returned
  /\ monthsElapsed > 0
  /\ loan.continueExtraPayments = "true"
  /\ loan.extraPayment >= 1
  /\ LET less == CalculateLoan([loan EXCEPT !.extraPayment = @ - 1], today)
     IN /\ result.monthsToPayout < less.monthsToPayout
        /\ result.totalInterestPaid < less.totalInterestPaid

\* The returned call is of a new loan with no extra and no one-time payment,
\* paid at the level payment of its principal, term and rate.
StandardCall ==
  /\ Returned
  /\ monthsElapsed = 0
  /\ OrZero(loan.extraPayment) = 0
  /\ OrZero(loan.oneTimeExtraPayments) = 0
  /\ loan.loanAmount % (IF MonthlyRate(loan) = 0 THEN loan.loanLengthYears * 12
                         ELSE Pow(1 + MonthlyRate(loan), loan.loanLengthYears * 12) - 1) = 0
  /\ PrincipalAndInterest(loan)
       = CalculateMonthlyPayment(loan.loanAmount, loan.loanLengthYears, loan.interestRate)

\* What the standard schedule reports: the term in months, and as interest
\* the payments of the term less the principal (nothing at rate 0).
StandardOutcome ==
  /\ result.monthsToPayout = loan.loanLengthYears * 12
  /\ result.totalInterestPaid
       = PrincipalAndInterest(loan) * (loan.loanLengthYears * 12) - loan.loanAmount
  /\ MonthlyRate(loan) = 0 => result.totalInterestPaid = 0

\* C16 as stated: a new loan with no extra or one-time payment, paid at the
\* level payment M of its principal P, term and rate, is reported paid out in
\* term x 12 months with total interest M x n - P, and at rate 0 in exactly
\* n months with no interest.  Fails for P = 0, which is paid out in 0 months.
C16_StandardSchedule == StandardCall => StandardOutcome

\* C16 amended: the same for a principal P > 0.
C16_StandardSchedulePositive == (StandardCall /\ loan.loanAmount > 0) => StandardOutcome

C16_Witness ==
  /\ StandardCall
  /\ loan.loanAmount = 4095
  /\ loan.interestRate = 1200
  /\ loan.escrow > 0
  /\ result.monthsToPayout = 12
  /\ result.totalInterestPaid = 45057

\* C17 as stated: the reported monthsToPayout is monthCount - monthsElapsed
\* when monthsElapsed > 0 and monthCount when monthsElapsed = 0, also when
\* the walk ended at a month index smaller than monthsElapsed.
C17_RemainingMonths ==
  Returned =>
    /\ monthsElapsed > 0 => result.monthsToPayout = monthCount - monthsElapsed
    /\ monthsElapsed = 0 => result.monthsToPayout = monthCount

\* C17 amended: the reported monthsToPayout is monthCount - monthsElapsed
\* floored at 0 when monthsElapsed > 0, and monthCount when monthsElapsed = 0.
C17_RemainingMonthsFloored ==
  Returned =>
    /\ monthsElapsed > 0 => result.monthsToPayout = Max(0, monthCount - monthsElapsed)
    /\ monthsElapsed = 0 => result.monthsToPayout = monthCount

C17_Witness ==
  /\ Returned
  /\ monthsElapsed > 0
  /\ monthCount >= 1
  /\ monthCount < monthsElapsed
  /\ result.monthsToPayout = 0

RECURSIVE ExtraAfter(_, _, _)
\* The extra principal of the schedule's months after month me, from entry i.
ExtraAfter(s, me, i) ==
  IF i > Len(s) THEN 0
  ELSE (IF s[i].month > me THEN s[i].extraPayment ELSE 0) + ExtraAfter(s, me, i + 1)

\* The balance month i of the walk starts from, the one-time payment of an
\* existing loan taken off in month monthsElapsed and in no other.
BalanceOfMonth(i) ==
  LET before == IF i = 1 THEN loan.loanAmount ELSE schedule[i - 1].remainingBalance
  IN IF i = monthsElapsed THEN ApplyOneTime(before, OneTime) ELSE before

\* The walk left its loop by the break of the final month (line 123).
FinalMonth == pc = "exit" /\ ~BrokeOnOneTime

\* The balance the last month walked starts from.
FinalBalance ==
  LET n == Len(schedule)
      before == IF n = 1 THEN OpeningBalance(loan, monthsElapsed)
                ELSE schedule[n - 1].remainingBalance
  IN IF n = monthsElapsed /\ monthsElapsed > 0 /\ OneTime > 0
       THEN ApplyOneTime(before, OneTime) ELSE before

\* The scheduled principal portion of the last month walked.
FinalPrincipalPayment == PrincipalAndInterest(loan) - FinalBalance * MonthlyRate(loan)

\* The number of months walked in which the recurring extra payment applied.
MonthsExtraApplied ==
  Cardinality({i \in 1..Len(schedule) :
                 /\ ApplyExtraPayment(loan, monthsElapsed, i)
                 /\ ~(i = Len(schedule) /\ BrokeOnOneTime)})

\* What the final month does: it is the month whose scheduled principal plus
\* applied extra reaches the balance; it accrues the interest of the balance
\* and as extra principal max(0, balance - scheduled principal), which is at
\* most the extra applied that month, and leaves the balance 0.
FinalMonthAccrual ==
  FinalMonth =>
    /\ FinalPrincipalPayment + extraThisMonth >= FinalBalance
    /\ interestPayment = FinalBalance * MonthlyRate(loan)
    /\ totalInterest = InterestAfter(schedule, 0, 1)
    /\ schedule[Len(schedule)].interestPayment = interestPayment
    /\ schedule[Len(schedule)].extraPayment = Max(0, FinalBalance - FinalPrincipalPayment)
    /\ totalExtraPayment = ExtraAfter(schedule, 0, 1)
    /\ schedule[Len(schedule)].extraPayment <= extraThisMonth
    /\ balance = 0

\* C20 as stated: the final month accrues as above, and the reported total
\* extra payment never exceeds extraPayment x the number of months in which
\* the extra applied.  Fails for the immediate payoff, which reports the
\* one-time payment as total extra with no month walked.
C20_FinalMonth ==
  /\ FinalMonthAccrual
  /\ Returned =>
        result.totalExtraPayment <= OrZero(loan.extraPayment) * MonthsExtraApplied

\* C20 amended: the same, the reported total being that of a call that
\* walked the schedule (not the immediate payoff of line 55).
C20_FinalMonthOfWalk ==
  /\ FinalMonthAccrual
  /\ (Returned /\ ~ImmediatePayoff(loan, monthsElapsed)) =>
        result.totalExtraPayment <= OrZero(loan.extraPayment) * MonthsExtraApplied

\* C20 witness: a final month that needed only part of the extra applied.
C20_Witness ==
  /\ FinalMonth
  /\ schedule[Len(schedule)].extraPayment > 0
  /\ schedule[Len(schedule)].extraPayment < extraThisMonth
  /\ Len(schedule) >= 2

\* The one-time payment of an existing loan is subtracted once, in month
\* monthsElapsed and before that month's interest, and in no other month.
OneTimeSubtractedOnce ==
  \A i \in 1..Len(schedule) :
    /\ schedule[i].interestPayment = BalanceOfMonth(i) * MonthlyRate(loan)
    /\ schedule[i].remainingBalance
         = BalanceOfMonth(i) - schedule[i].principalPayment - schedule[i].extraPayment

\* C19: for an existing loan the one-time payment is subtracted from the
\* balance exactly once, at month index monthsElapsed and before that month's
\* interest, never in another month and never when the walk ends earlier; it
\* is reflected in the reported remaining balance as of today and is not
\* added to the prospective extra-payment total.
C19_OneTimeAtElapsed ==
  (Returned /\ monthsElapsed > 0 /\ OneTime > 0) =>
    /\ OneTimeSubtractedOnce
    /\ Len(schedule) >= monthsElapsed =>
          result.currentRemainingBalance = schedule[monthsElapsed].remainingBalance
    /\ result.totalExtraPayment = ExtraAfter(schedule, monthsElapsed, 1)

\* The walk's balance at the end of month min(monthsElapsed, last month
\* walked); the principal when no month was walked.
BalanceAsOfToday ==
  LET last == IF Len(schedule) < monthsElapsed THEN Len(schedule) ELSE monthsElapsed
  IN IF last = 0 THEN loan.loanAmount ELSE schedule[last].remainingBalance

\* The loan is fully retired at a month index <= monthsElapsed.
RetiredByToday == Len(schedule) >= 1 /\ Len(schedule) <= monthsElapsed /\ balance = 0

\* C21: for an existing loan the reported remaining balance as of today is
\* the walk's balance at the end of month min(monthsElapsed, last month
\* walked); it is 0, and totalAmountPaid is 0, when the loan is fully retired
\* at a month index <= monthsElapsed.
C21_RemainingBalanceAsOfToday ==
  (Returned /\ monthsElapsed > 0) =>
    /\ result.currentRemainingBalance = BalanceAsOfToday
    /\ RetiredByToday =>
          (result.currentRemainingBalance = 0 /\ result.totalAmountPaid = 0)

(***************************************************************************)
(* compareLoan, with its two calls of calculateLoan as single steps.       *)
(***************************************************************************)
InitCompare ==
  /\ clock = DateOfIndex(ClockStart)
  /\ ticks = 0
  /\ cpc = "call"
  /\ originalLoan \in CompareOriginalLoans \cup {TypicalOriginalLoan}
  /\ newLoan \in CompareNewLoans \cup {TypicalNewLoan}
  /\ originalResult = NoResult
  /\ newResult = NoResult
  /\ todayOriginal = NoDate
  /\ todayNew = NoDate
  /\ comparison = NoComparison
  /\ SearchIdle
  /\ FormIdle
  /\ loan = NoLoan
  /\ pc = "idle"
  /\ today = NoDate
  /\ monthsElapsed = 0
  /\ balance = 0
  /\ totalInterest = 0
  /\ totalExtraPayment = 0
  /\ monthCount = 0
  /\ currentRemainingBalance = 0
  /\ futureInterest = 0
  /\ futureExtraPayment = 0
  /\ interestPayment = 0
  /\ extraThisMonth = 0
  /\ schedule = << >>
  /\ result = NoResult

\* The wall clock passes a month boundary between the two calls of
\* calculateLoan, the only reads of the clock in compareLoan.
Tick ==
  /\ cpc = "original"
  /\ ticks < MaxTicks
  /\ clock' = AddMonths(clock, 1)
  /\ ticks' = ticks + 1
  /\ UNCHANGED <<calcVars, cmpVars, searchVars, formVars>>

\* Line 183: calculateLoan(originalLoan), which reads the wall clock.
CallOriginal ==
  /\ cpc = "call"
  /\ todayOriginal' = clock
  /\ originalResult' = CalculateLoan(originalLoan, clock)
  /\ cpc' = "original"
  /\ UNCHANGED <<clock, ticks, calcVars, originalLoan, newLoan, newResult,
                 todayNew, comparison, searchVars, formVars>>

\* Line 184: calculateLoan(newLoan), which reads the wall clock again.
CallNew ==
  /\ cpc = "original"
  /\ todayNew' = clock
  /\ newResult' = CalculateLoan(newLoan, clock)
  /\ cpc' = "new"
  /\ UNCHANGED <<clock, ticks, calcVars, originalLoan, newLoan, originalResult,
                 todayOriginal, comparison, searchVars, formVars>>

\* Lines 186-228: the differences are computed, the rate search is called
\* (lines 211-215) and the comparison is returned.
Compare ==
  /\ cpc = "new"
  /\ comparison' = Comparison(originalLoan, newLoan, originalResult, newResult)
  /\ searchCalls' = Append(searchCalls, SuggestedRateArgs(newLoan, originalResult))
  /\ cpc' = "done"
  /\ UNCHANGED <<clock, ticks, calcVars, originalLoan, newLoan, originalResult,
                 newResult, todayOriginal, todayNew, searchLocals, formVars>>

NextCompare == Tick \/ CallOriginal \/ CallNew \/ Compare

SpecCompare == InitCompare /\ [][NextCompare]_vars

(***************************************************************************)
(* The rate searches, step by step.                                        *)
(***************************************************************************)
InitSearch ==
  /\ clock = DateOfIndex(ClockStart)
  /\ ticks = 0
  /\ cpc = "idle"
  /\ CompareIdle
  /\ FormIdle
  /\ searchCalls = << >>
  /\ searchArgs \in InterestSearches \cup PaymentSearches
  /\ spc = "call"
  /\ low = 0
  /\ high = 0
  /\ mid = 0
  /\ iterations = 0
  /\ rate = 0
  /\ byTolerance = FALSE
  /\ loan = NoLoan
  /\ pc = "idle"
  /\ today = NoDate
  /\ monthsElapsed = 0
  /\ balance = 0
  /\ totalInterest = 0
  /\ totalExtraPayment = 0
  /\ monthCount = 0
  /\ currentRemainingBalance = 0
  /\ futureInterest = 0
  /\ futureExtraPayment = 0
  /\ interestPayment = 0
  /\ extraThisMonth = 0
  /\ schedule = << >>
  /\ result = NoResult

\* Lines 238-252 and 294-307: the search is called; it returns 0 at once when
\* the target is below what rate 0 gives, and sets up its bracket otherwise.
SearchEnter ==
  /\ spc = "call"
  /\ searchCalls' = Append(searchCalls, searchArgs)
  /\ SetSearchLocals(SearchOpening)
  /\ spc' = IF SearchShortCut(searchArgs) THEN "returned" ELSE "loop"
  /\ UNCHANGED <<clock, ticks, calcVars, cmpVars, searchArgs, formVars>>

\* Lines 254-280 and 309-334: one iteration; the tolerance test returns mid.
SearchIterate ==
  /\ spc = "loop"
  /\ SearchCond(SearchLocals)
  /\ \E w \in {SearchStep(searchArgs, SearchLocals)} :
        /\ SetSearchLocals(w)
        /\ spc' = IF w.exited THEN "returned" ELSE "loop"
  /\ UNCHANGED <<clock, ticks, calcVars, cmpVars, searchCalls, searchArgs, formVars>>

\* Lines 282 and 336: the loop's condition fails; the midpoint is returned.
SearchExit ==
  /\ spc = "loop"
  /\ ~SearchCond(SearchLocals)
  /\ rate' = SearchReturn(searchArgs, SearchLocals)
  /\ spc' = "returned"
  /\ UNCHANGED <<clock, ticks, calcVars, cmpVars, searchCalls, searchArgs, low,
                 high, mid, iterations, byTolerance, formVars>>

NextSearch == SearchEnter \/ SearchIterate \/ SearchExit

SpecSearch == InitSearch /\ [][NextSearch]_vars

(***************************************************************************)
(* Properties of the rate searches, checked under SpecSearch.              *)
(***************************************************************************)
SearchReturned == spc = "returned"

SearchMonths == searchArgs.loanLengthYears * 12

\* C15: the target-payment search, given the payment of a principal P > 0 at
\* a rate r of [0, 20], returns r to within the width the bracket is narrowed
\* to, 0.0001 percent.
C15_RoundTrip ==
  (SearchReturned /\ searchArgs.kind = "payment" /\ searchArgs.loanAmount > 0) =>
    \A k \in RoundTripRates :
      searchArgs.target
          = MonthlyPaymentAtRate(searchArgs.loanAmount, searchArgs.loanLengthYears, k)
        => Abs(rate - k) <= RateUnits \div (MaxRate * 10000)

\* C15 amended: the search returns a rate whose payment is within 0.01 of the
\* payment searched for or, when the bracket was narrowed to 0.0001 percent
\* without meeting that tolerance, a rate within 0.0001 percent of r.
C15_RoundTripWithinTolerance ==
  (SearchReturned /\ searchArgs.kind = "payment" /\ searchArgs.loanAmount > 0) =>
    \A k \in RoundTripRates :
      searchArgs.target
          = MonthlyPaymentAtRate(searchArgs.loanAmount, searchArgs.loanLengthYears, k)
        => \/ Abs(PaymentAt(searchArgs.loanAmount, SearchMonths, rate)
                  - searchArgs.target) < PaymentScale \div PaymentToleranceInverse
           \/ /\ ~byTolerance
              /\ Abs(rate - k) <= RateUnits \div (MaxRate * 10000)

\* C15 witness: the search has bisected and returned, from its tolerance
\* test, a rate other than r whose payment is within 0.01 of r's payment.
C15_Witness ==
  /\ SearchReturned
  /\ searchArgs.kind = "payment"
  /\ searchArgs.loanAmount > 0
  /\ byTolerance
  /\ iterations >= 3
  /\ \E k \in RoundTripRates :
       /\ searchArgs.target
            = MonthlyPaymentAtRate(searchArgs.loanAmount, searchArgs.loanLengthYears, k)
       /\ Abs(rate - k) > RateUnits \div (MaxRate * 10000)

\* The target-interest search is past its short cut: its locals are set.
InterestSearching == searchArgs.kind = "interest" /\ spc \in {"loop", "returned"}

\* targetTotalInterest of line 245, in units of 1 / InterestScale.
SearchTargetInterest == searchArgs.target - searchArgs.loanAmount * InterestScale

\* The total interest of the searched loan at rate k.
SearchInterestAt(k) == TotalInterestAt(searchArgs.loanAmount, SearchMonths, k)

\* C18: throughout the target-interest search 0 <= low <= high <= 20 and the
\* returned rate is in [0, 20]; an iteration raises low to the midpoint
\* exactly when the midpoint's total interest is below the target and lowers
\* high to it otherwise; so when the target lies between the total interest
\* at rate 0 and at rate 20 the total interest at low is at most the target
\* and at high at least the target (a rate meeting the target lies between);
\* and a rate returned by the tolerance test has total interest within 10 of
\* the target.
C18_BisectionBracket ==
  /\ InterestSearching =>
        /\ 0 <= low /\ low <= high /\ high <= RateUnits
        /\ 0 <= rate /\ rate <= RateUnits
        /\ (iterations >= 1 /\ ~byTolerance) =>
              \/ low = mid /\ high # mid /\ SearchInterestAt(mid) < SearchTargetInterest
              \/ high = mid /\ low # mid /\ SearchInterestAt(mid) >= SearchTargetInterest
        /\ (SearchInterestAt(0) <= SearchTargetInterest
              /\ SearchTargetInterest <= SearchInterestAt(RateUnits)) =>
              /\ SearchInterestAt(low) <= SearchTargetInterest
              /\ SearchTargetInterest <= SearchInterestAt(high)
        /\ byTolerance =>
              Abs(SearchInterestAt(rate) - SearchTargetInterest)
                < InterestTolerance * InterestScale
  /\ (searchArgs.kind = "interest" /\ SearchReturned) => (0 <= rate /\ rate <= RateUnits)

\* C18 witness: a search whose target lies between the total interest at
\* rate 0 and at rate 20 has moved both ends of its bracket and returned from
\* its tolerance test.
C18_Witness ==
  /\ InterestSearching
  /\ SearchReturned
  /\ byTolerance
  /\ iterations >= 2
  /\ 0 < low /\ high < RateUnits
  /\ SearchInterestAt(0) <= SearchTargetInterest
  /\ SearchTargetInterest <= SearchInterestAt(RateUnits)

\* A rate search is past its short cut: its locals are set.
Searching == spc \in {"loop", "returned"}

\* C22: both rate searches end after at most 18 bisection steps: the bracket
\* starts at width 20 and halves on every step that does not return, until
\* its width is <= 0.0001; the limit of 100 iterations is never reached and
\* is never the reason the loop is left.
C22_AtMostEighteenSteps ==
  Searching =>
    /\ iterations <= 18
    /\ iterations < MaxIterations
    /\ (high - low) * Pow(2, iterations) = RateUnits
    /\ byTolerance => iterations <= 17
    /\ (SearchReturned /\ ~byTolerance /\ ~SearchShortCut(searchArgs)) =>
          /\ iterations = 18
          /\ high - low <= RateUnits \div (MaxRate * 10000)

\* C22 witness: a target-payment search left its loop after 18 halvings.
C22_Witness ==
  /\ SearchReturned
  /\ searchArgs.kind = "payment"
  /\ ~SearchShortCut(searchArgs)
  /\ ~byTolerance
  /\ iterations = 18
  /\ high - low <= RateUnits \div (MaxRate * 10000)

(***************************************************************************)
(* Properties of compareLoan, checked under SpecCompare.                   *)
(***************************************************************************)
Compared == cpc = "done"

\* C9: the two simulations of one compareLoan call use the same today.
C9_SameToday == Compared => todayOriginal = todayNew

\* C10: breakEvenMonths is ceil(closingCosts / |payment difference|), the
\* least number of months whose savings cover the closing costs, when there
\* are closing costs and the new payment is lower, and 0 otherwise; closing
\* costs of 5000 and a difference of -150 give 34.
C10_BreakEven ==
  Compared =>
    /\ LET c == IF newLoan.closingCosts = Undefined THEN 0 ELSE newLoan.closingCosts
           d == newLoan.monthlyPayment - originalLoan.monthlyPayment
           n == comparison.breakEvenMonths
       IN IF c > 0 /\ d < 0
            THEN n * (-d) >= c /\ (n - 1) * (-d) < c
            ELSE n = 0
    /\ BreakEvenMonths(5000, -150) = 34

\* C10 witness: closing costs that the monthly savings do not divide.
C10_Witness ==
  /\ Compared
  /\ newLoan.closingCosts > 0
  /\ newLoan.monthlyPayment < originalLoan.monthlyPayment
  /\ newLoan.closingCosts % (originalLoan.monthlyPayment - newLoan.monthlyPayment) # 0
  /\ comparison.breakEvenMonths >= 2

\* C11: totalCostWithClosing is the new loan's total paid plus its closing
\* costs (missing closing costs count as 0), netSavings is the original
\* loan's total paid minus that, and so netSavings is minus the difference in
\* total payment minus the closing costs; the deltas are new minus original.
C11_NetSavings ==
  Compared =>
    LET c == IF newLoan.closingCosts = Undefined THEN 0 ELSE newLoan.closingCosts
    IN /\ comparison.totalCostWithClosing = newResult.totalAmountPaid + c
       /\ comparison.netSavings
            = originalResult.totalAmountPaid - comparison.totalCostWithClosing
       /\ comparison.netSavings = (- comparison.differenceInTotalPayment) - c
       /\ comparison.differenceInTotalPayment
            = newResult.totalAmountPaid - originalResult.totalAmountPaid
       /\ comparison.differenceinInterest
            = newResult.totalInterestPaid - originalResult.totalInterestPaid
       /\ comparison.monthlyPaymentDifference
            = newLoan.monthlyPayment - originalLoan.monthlyPayment

\* C11 witness: the new loan costs less in total, and the closing costs turn
\* the saving into a loss.
C11_Witness ==
  /\ Compared
  /\ newLoan.closingCosts > 0
  /\ comparison.differenceInTotalPayment < 0
  /\ comparison.netSavings < 0

\* C12: compareLoan calls the target-interest search exactly once, with the
\* new loan's principal and term and with targetTotalCost = new principal +
\* 0.80 x the original loan's reported totalInterestPaid, and returns what
\* the search returns as suggestedNewRate; nothing else of the original loan
\* enters.  (targetTotalCost is in units of 1 / InterestScale.)
C12_SuggestedRateTarget ==
  /\ ~Compared => searchCalls = << >>
  /\ Compared =>
       LET targetTotalCost ==
             newLoan.loanAmount * InterestScale
               + originalResult.totalInterestPaid * ((InterestScale * 8) \div 10)
       IN /\ Len(searchCalls) = 1
          /\ searchCalls[1].kind = "interest"
          /\ searchCalls[1].loanAmount = newLoan.loanAmount
          /\ searchCalls[1].loanLengthYears = newLoan.loanLengthYears
          /\ searchCalls[1].target = targetTotalCost
          /\ comparison.suggestedNewRate
               = CalculateTargetSavingsRate(newLoan.loanAmount,
                                            newLoan.loanLengthYears,
                                            targetTotalCost)

\* C12 witness: the original loan reports interest, the two principals differ
\* and the search has bisected towards the target.
C12_Witness ==
  /\ Compared
  /\ originalResult.totalInterestPaid > 0
  /\ newLoan.loanAmount > 0
  /\ newLoan.loanAmount # originalLoan.loanAmount
  /\ comparison.suggestedNewRate > RateUnits \div 2

\* C13: suggestedNewRate is the rate at which the standard monthly payment of
\* the new loan (its amount and term) equals the original loan's monthly
\* payment, whenever there is such a rate in the range searched: it is the
\* rate the target-payment search finds, or its payment is within 0.01 of the
\* original payment.
C13_KeepsCurrentPayment ==
  (/\ Compared
   /\ newLoan.loanAmount > 0
   /\ PaymentAt(newLoan.loanAmount, newLoan.loanLengthYears * 12, 0)
        < originalLoan.monthlyPayment * PaymentScale
   /\ originalLoan.monthlyPayment * PaymentScale
        <= PaymentAt(newLoan.loanAmount, newLoan.loanLengthYears * 12, RateUnits))
  =>
    \/ comparison.suggestedNewRate
         = CalculateSuggestedRate(newLoan.loanAmount, newLoan.loanLengthYears,
                                  originalLoan.monthlyPayment * PaymentScale)
    \/ Abs(PaymentAt(newLoan.loanAmount, newLoan.loanLengthYears * 12,
                     comparison.suggestedNewRate)
           - originalLoan.monthlyPayment * PaymentScale)
         < PaymentScale \div PaymentToleranceInverse

(***************************************************************************)
(* The form layer: the change handlers of lines 70-83, step by step.  The  *)
(* forms start as ngOnInit leaves them.                                     *)
(***************************************************************************)
\* Both forms are valid: the guard of calculateComparison and of saveData.
BothFormsValid == OriginalFormValid(originalLoanForm) /\ NewFormValid(newLoanForm)

InitForm ==
  /\ clock = DateOfIndex(ClockStart)
  /\ ticks = 0
  /\ cpc = "idle"
  /\ CompareIdle
  /\ SearchIdle
  /\ loan = NoLoan
  /\ pc = "idle"
  /\ today = NoDate
  /\ monthsElapsed = 0
  /\ balance = 0
  /\ totalInterest = 0
  /\ totalExtraPayment = 0
  /\ monthCount = 0
  /\ currentRemainingBalance = 0
  /\ futureInterest = 0
  /\ futureExtraPayment = 0
  /\ interestPayment = 0
  /\ extraThisMonth = 0
  /\ schedule = << >>
  /\ result = NoResult
  /\ fpc = "idle"
  /\ originalLoanForm \in {AutoCalculatePayment(o) : o \in LoadedOriginalForms}
  /\ newLoanForm \in {UpdateNewLoanAmount(originalLoanForm, AutoCalculatePayment(n), clock) :
                        n \in LoadedNewForms}
  /\ comparisonResult =
       IF BothFormsValid
         THEN CompareLoan(OriginalLoanOf(originalLoanForm),
                          NewLoanOf(newLoanForm, clock), clock)
         ELSE NoComparison
  /\ comparedAmount = IF BothFormsValid THEN newLoanForm.loanAmount ELSE Undefined
  /\ savedData = <<NoLoan, NoForm, NoDate>>
  /\ changeEvents = 0
  /\ formLog = << >>
  /\ edits = 0

\* The user edits a control of the original-loan form: line 72 fires.
EditOriginal ==
  /\ fpc = "idle"
  /\ edits < MaxEdits
  /\ originalLoanForm' \in OriginalEdits(originalLoanForm)
  /\ changeEvents' = 1
  /\ formLog' = <<"originalLoanForm.valueChanges">>
  /\ fpc' = "autoOriginal"
  /\ edits' = edits + 1
  /\ UNCHANGED <<clock, ticks, calcVars, cmpVars, searchVars, newLoanForm,
                 comparisonResult, savedData, comparedAmount>>

\* Line 73: autoCalculatePayment(originalLoanForm)
AutoOriginal ==
  /\ fpc = "autoOriginal"
  /\ originalLoanForm' = AutoCalculatePayment(originalLoanForm)
  /\ changeEvents' = changeEvents + PatchEvents(CanAutoCalculate(originalLoanForm))
  /\ formLog' = Append(formLog, "autoCalculatePayment")
  /\ fpc' = "updateNew"
  /\ UNCHANGED <<clock, ticks, calcVars, cmpVars, searchVars, newLoanForm,
                 comparisonResult, savedData, comparedAmount, edits>>

\* Line 74: updateNewLoanAmount()
UpdateNew ==
  /\ fpc = "updateNew"
  /\ newLoanForm' = UpdateNewLoanAmount(originalLoanForm, newLoanForm, clock)
  /\ changeEvents' = changeEvents
       + PatchEvents(OriginalFormValid(originalLoanForm))
       + PatchEvents(OriginalFormValid(originalLoanForm) /\ CanAutoCalculate(newLoanForm'))
  /\ formLog' = Append(formLog, "updateNewLoanAmount")
  /\ fpc' = "compare"
  /\ UNCHANGED <<clock, ticks, calcVars, cmpVars, searchVars, originalLoanForm,
                 comparisonResult, savedData, comparedAmount, edits>>

\* The user edits a control of the new-loan form: line 79 fires.
EditNew ==
  /\ fpc = "idle"
  /\ edits < MaxEdits
  /\ newLoanForm' \in NewEdits(newLoanForm)
  /\ changeEvents' = 1
  /\ formLog' = <<"newLoanForm.valueChanges">>
  /\ fpc' = "autoNew"
  /\ edits' = edits + 1
  /\ UNCHANGED <<clock, ticks, calcVars, cmpVars, searchVars, originalLoanForm,
                 comparisonResult, savedData, comparedAmount>>

\* Line 80: autoCalculatePayment(newLoanForm)
AutoNew ==
  /\ fpc = "autoNew"
  /\ newLoanForm' = AutoCalculatePayment(newLoanForm)
  /\ changeEvents' = changeEvents + PatchEvents(CanAutoCalculate(newLoanForm))
  /\ formLog' = Append(formLog, "autoCalculatePayment")
  /\ fpc' = "compare"
  /\ UNCHANGED <<clock, ticks, calcVars, cmpVars, searchVars, originalLoanForm,
                 comparisonResult, savedData, comparedAmount, edits>>

\* Lines 75 and 81: calculateComparison(), which calls compareLoan when both
\* forms are valid.
CalculateComparison ==
  /\ fpc = "compare"
  /\ IF BothFormsValid
       THEN /\ comparisonResult' = CompareLoan(OriginalLoanOf(originalLoanForm),
                                               NewLoanOf(newLoanForm, clock), clock)
            /\ comparedAmount' = newLoanForm.loanAmount
            /\ formLog' = Append(formLog, "compareLoan")
       ELSE /\ formLog' = Append(formLog, "calculateComparison")
            /\ UNCHANGED <<comparisonResult, comparedAmount>>
  /\ fpc' = "save"
  /\ UNCHANGED <<clock, ticks, calcVars, cmpVars, searchVars, originalLoanForm,
                 newLoanForm, savedData, changeEvents, edits>>

\* Lines 76 and 82: saveData(), which stores the forms when both are valid.
SaveData ==
  /\ fpc = "save"
  /\ savedData' = IF BothFormsValid THEN <<originalLoanForm, newLoanForm, clock>>
                                    ELSE savedData
  /\ formLog' = Append(formLog, "saveData")
  /\ fpc' = "idle"
  /\ UNCHANGED <<clock, ticks, calcVars, cmpVars, searchVars, originalLoanForm,
                 newLoanForm, comparisonResult, changeEvents, comparedAmount, edits>>

NextForm ==
  EditOriginal \/ AutoOriginal \/ UpdateNew \/ EditNew \/ AutoNew
    \/ CalculateComparison \/ SaveData

SpecForm == InitForm /\ [][NextForm]_vars

(***************************************************************************)
(* Properties of the form layer, checked under SpecForm.                   *)
(***************************************************************************)
\* The handler of a change of the original-loan form has run to its end.
OriginalHandled ==
  /\ fpc = "idle"
  /\ formLog # << >>
  /\ formLog[1] = "originalLoanForm.valueChanges"

\* What the handler of an original-loan change has done at its end: its
\* steps in their order with one call of compareLoan, no change event beyond
\* the edit's own, the new-loan amount set to the rounded remaining balance
\* of the original loan, and the comparison shown computed from that amount.
RecomputedInOrder ==
  /\ formLog = <<"originalLoanForm.valueChanges", "autoCalculatePayment",
                 "updateNewLoanAmount", "compareLoan", "saveData">>
  /\ changeEvents = 1
  /\ newLoanForm.loanAmount
       = MathRound(CalculateLoan(originalLoanForm, clock).currentRemainingBalance, 1)
  /\ comparedAmount = newLoanForm.loanAmount
  /\ comparisonResult = CompareLoan(OriginalLoanOf(originalLoanForm),
                                    NewLoanOf(newLoanForm, clock), clock)

\* C23 as stated: after every change of the original-loan form while that
\* form is valid the handler has recomputed the original payment, then set
\* the new-loan amount to the rounded remaining balance and recomputed the
\* new payment, then compared once and saved; no patch emitted a change
\* event; and the comparison shown was computed from the updated new-loan
\* amount.  Fails when the new-loan form is invalid: no comparison is made.
C23_RecomputeOrdering ==
  /\ fpc # "none" => changeEvents <= 1
  /\ (OriginalHandled /\ OriginalFormValid(originalLoanForm)) => RecomputedInOrder

\* C23 amended: the same while both forms are valid.
C23_RecomputeOrderingBothValid ==
  /\ fpc # "none" => changeEvents <= 1
  /\ (OriginalHandled /\ BothFormsValid) => RecomputedInOrder

\* C23 witness: an edit of the original loan's start date has been handled
\* with both forms valid, and the comparison shown is of the remaining
\* balance, which is below the principal.
C23_Witness ==
  /\ OriginalHandled
  /\ BothFormsValid
  /\ RecomputedInOrder
  /\ comparedAmount > 0
  /\ comparedAmount < originalLoanForm.loanAmount

====
